---- MODULE Spec2Model ----
(***************************************************************************)
(* The outbox / delivery-retry subsystem of SHA Connect (src/app.py):      *)
(* add_to_outbox, process_outbox and the Outbox page's "Retry Failed Only" *)
(* and "Clear All Failed" buttons, over the session's outbox_df and        *)
(* message_logs tables and their JSON files.                               *)
(*                                                                         *)
(* A table is a sequence of rows in position order.  A row of outbox_df    *)
(* carries its pandas index label in the field idx: .at and .drop address  *)
(* rows by label, iterrows yields (label, row) in position order, and      *)
(* concat(..., ignore_index=True) relabels the rows 0..n-1.  The fields    *)
(* "Date Created" / "Date Sent" hold datetime.now() strings which no code  *)
(* path reads; they are left out.  The field uid is a history field: the   *)
(* number of the add_to_outbox call that created the row.                  *)
(*                                                                         *)
(* Spec lets every pass take any max_attempts, SpecFixed gives every pass  *)
(* the same one, and SpecFault is the Outbox page (default max_attempts)   *)
(* with every save_df_to_file allowed to raise.  SpecReload adds "Reload   *)
(* All Data" to SpecFault, SpecPages drives the outbox through the Send    *)
(* buttons of the pages, and SpecSessions adds a second browser session.   *)
(***************************************************************************)
EXTENDS Integers, Sequences, FiniteSets, TLC

\* Bounds of the model.
MaxEnq == 2
MaxPasses == 3
MaxM == 3
MaxFaults == 1

VARIABLES
    outbox_df,      \* st.session_state.outbox_df
    message_logs,   \* st.session_state.message_logs
    outbox_file,    \* contents of OUTBOX_FILE ("records" orientation: no index)
    logs_file,      \* contents of MESSAGES_FILE
    pc,             \* "idle", or the position inside process_outbox: "loop", "save"
    max_attempts,   \* process_outbox's parameter during a pass
    snap,           \* the rows of outbox_df.copy() that the for loop iterates
    pos,            \* position in snap of the next row of the loop
    results,        \* process_outbox's results list
    calls,          \* history: the transport calls of the pass, in order
    report,         \* what the last finished operation reported to the page
    cfgMax,         \* the max_attempts every drain uses under SpecFixed
    twilio,         \* whether the Twilio secrets and client are there
    hist,           \* history: per uid, counts of what happened to the entry
    pre,            \* history: tables at the start of the last operation
    nEnq,           \* history: number of add_to_outbox calls so far
    nPass,          \* history: number of non-empty process_outbox passes so far
    nFault,         \* history: number of saves that raised so far
    other           \* a second browser session: its tables and process_outbox

vars == <<outbox_df, message_logs, outbox_file, logs_file, pc, max_attempts,
          snap, pos, results, calls, report, cfgMax, twilio, hist, pre,
          nEnq, nPass, nFault, other>>

\* process_outbox(max_attempts=3)
DefaultMaxAttempts == 3

\* What the Send forms can hand to add_to_outbox (recipient, message,
\* language, msg_type); msg_type is "sms" or "voice".
Payloads ==
    { [Recipient |-> "+254700000000", Message |-> "m1",
       Language |-> "English", Type |-> "sms"],
      [Recipient |-> "+254711111111", Message |-> "m2",
       Language |-> "Swahili", Type |-> "voice"] }

MaxAttemptsChoices == 1..MaxM

Uids == 1..MaxEnq

----------------------------------------------------------------------------
\* pandas operations on a table with index labels

\* df.empty
IsEmpty(df) == Len(df) = 0

\* the index labels of df
Labels(df) == { df[k].idx : k \in 1..Len(df) }

\* mutant of ConcatIgnoreIndex: the new row is put before the table
ConcatIgnoreIndex_NewFirst(df, row) ==
    LET all == <<row>> \o df
    IN  [k \in 1..Len(all) |-> [all[k] EXCEPT !.idx = k - 1]]

\* pd.concat([df, pd.DataFrame([row])], ignore_index=True)
ConcatIgnoreIndex(df, row) ==
    LET all == Append(df, row)
    IN  [k \in 1..Len(all) |-> [all[k] EXCEPT !.idx = k - 1]]

\* the row a missing label creates: every other column is NaN
NaNRow(idx) ==
    [idx |-> idx, Recipient |-> "NaN", Message |-> "NaN", Language |-> "NaN",
     Type |-> "NaN", Attempts |-> "NaN", Status |-> "NaN", uid |-> 0]

\* df.at[idx, col] = v : sets the cell of the row labelled idx; a label
\* that is not in the index enlarges the table by a row
SetAt(df, idx, col, v) ==
    IF idx \in Labels(df)
    THEN [k \in 1..Len(df) |->
            IF df[k].idx = idx THEN [df[k] EXCEPT ![col] = v] ELSE df[k]]
    ELSE Append(df, [NaNRow(idx) EXCEPT ![col] = v])

\* df.drop(idx) : the rows whose label is not idx, labels kept
DropLabel(df, idx) == SelectSeq(df, LAMBDA r : r.idx # idx)

\* df["Status"] == "Failed", as the set of positions where the mask is True
FailedMask(df) == { k \in 1..Len(df) : df[k].Status = "Failed" }

\* df.loc[mask, col] = v
SetLoc(df, mask, col, v) ==
    [k \in 1..Len(df) |-> IF k \in mask THEN [df[k] EXCEPT ![col] = v] ELSE df[k]]

\* the rows of df, from position k on, whose position is not in mask
RECURSIVE KeepFrom(_, _, _)
KeepFrom(df, mask, k) ==
    IF k > Len(df) THEN <<>>
    ELSE (IF k \in mask THEN <<>> ELSE <<df[k]>>) \o KeepFrom(df, mask, k + 1)

\* mutant of FilterNot: the mask is not negated
FilterNot_Inverted(df, mask) == KeepFrom(df, (1..Len(df)) \ mask, 1)

\* df[~mask] : the rows outside the mask, order and labels kept
FilterNot(df, mask) == KeepFrom(df, mask, 1)

\* df.to_json(path, orient="records"): the rows' columns, without the index
ToRecords(df) ==
    [k \in 1..Len(df) |-> [f \in (DOMAIN df[k]) \ {"idx"} |-> df[k][f]]]

\* save_df_to_file
save_df_to_file(df) == ToRecords(df)

\* save_df_to_file raising: to_json and the json.dump fallback both fail; the
\* file is left as it was (it could not be opened) or cut short by the open
\* for writing, which load_df_from_file reads as an empty table
save_df_to_file_raises(file) == {file, <<>>}

----------------------------------------------------------------------------
\* Twilio

\* What the Twilio client can do with one message once the credentials are
\* there: raise, or accept it.
TransportCases == {"error", "accepted"}

\* safe_send_sms(to_number, message): `configured` is
\* twilio_configured() and TwilioClient is not None
safe_send_sms(configured, case) ==
    IF ~configured THEN <<FALSE, "Twilio not configured">>
    ELSE IF case = "accepted" THEN <<TRUE, "SMS sent">>
    ELSE <<FALSE, "Twilio error">>

\* safe_make_call(to_number, message)
safe_make_call(configured, case) ==
    IF ~configured THEN <<FALSE, "Twilio not configured">>
    ELSE IF case = "accepted" THEN <<TRUE, "Call initiated">>
    ELSE <<FALSE, "Twilio error">>

\* process_outbox's choice of the transport by msg_type
Deliver(msg_type, configured, case) ==
    IF msg_type = "sms" THEN safe_send_sms(configured, case)
    ELSE safe_make_call(configured, case)

----------------------------------------------------------------------------
\* add_to_outbox

OutboxRow(recipient, message, language, msg_type, u) ==
    [idx |-> 0, Recipient |-> recipient, Message |-> message,
     Language |-> language, Type |-> msg_type, Attempts |-> 0,
     Status |-> "Pending", uid |-> u]

\* history of an entry: calls = transport calls made for it, passes = passes
\* that found it queued and not Failed, seen = passes that found it queued, all
\* three since it was enqueued or last reopened and while it is queued;
\* sent = calls that succeeded; reset,
\* purged = whether "Retry Failed Only" / "Clear All Failed" ever acted on it
HistZero ==
    [calls |-> 0, sent |-> 0, passes |-> 0, seen |-> 0,
     reset |-> FALSE, purged |-> FALSE]

\* history: one more save has raised
Raised == nFault < MaxFaults /\ nFault' = nFault + 1

\* the arguments of an operation that takes no message
NoArg == [Recipient |-> "", Message |-> "", Language |-> "", Type |-> ""]

\* history: the tables and files as an operation finds them, and the message
\* add_to_outbox was given
Before(p) ==
    [outbox |-> outbox_df, logs |-> message_logs, ofile |-> outbox_file,
     lfile |-> logs_file, arg |-> p]

\* a session that has not been opened
NoSession ==
    [started |-> FALSE, outbox_df |-> <<>>, message_logs |-> <<>>,
     pc |-> "idle", snap |-> <<>>, pos |-> 1, results |-> <<>>]

Init ==
    /\ outbox_df = <<>>
    /\ message_logs = <<>>
    /\ outbox_file = <<>>
    /\ logs_file = <<>>
    /\ pc = "idle"
    /\ max_attempts = DefaultMaxAttempts
    /\ snap = <<>>
    /\ pos = 1
    /\ results = <<>>
    /\ calls = <<>>
    /\ report = [op |-> "start", count |-> 0]
    /\ cfgMax = DefaultMaxAttempts
    /\ twilio \in BOOLEAN
    /\ hist = [u \in Uids |-> HistZero]
    /\ pre = [outbox |-> <<>>, logs |-> <<>>, ofile |-> <<>>, lfile |-> <<>>,
              arg |-> NoArg]
    /\ nEnq = 0
    /\ nPass = 0
    /\ nFault = 0
    /\ other = NoSession

\* outside process_outbox its locals do not exist
NoPass ==
    /\ max_attempts' = DefaultMaxAttempts
    /\ snap' = <<>>
    /\ pos' = 1
    /\ results' = <<>>
    /\ calls' = <<>>

add_to_outbox(p) ==
    /\ pc = "idle"
    /\ nEnq < MaxEnq
    /\ LET row == OutboxRow(p.Recipient, p.Message, p.Language, p.Type, nEnq + 1)
           df == ConcatIgnoreIndex(outbox_df, row)
       IN  /\ outbox_df' = df
           /\ outbox_file' = save_df_to_file(df)
    /\ report' = [op |-> "enqueue", count |-> 1]
    /\ pre' = Before(p)
    /\ nEnq' = nEnq + 1
    /\ NoPass
    /\ UNCHANGED <<message_logs, logs_file, pc, cfgMax, twilio, other,
                   nFault, hist, nPass>>

\* add_to_outbox when its save raises: the row is already in outbox_df
add_to_outbox_raises(p) ==
    /\ pc = "idle"
    /\ nEnq < MaxEnq
    /\ LET row == OutboxRow(p.Recipient, p.Message, p.Language, p.Type, nEnq + 1)
       IN  outbox_df' = ConcatIgnoreIndex(outbox_df, row)
    /\ outbox_file' \in save_df_to_file_raises(outbox_file)
    /\ Raised
    /\ report' = [op |-> "error", count |-> 0]
    /\ pre' = Before(p)
    /\ nEnq' = nEnq + 1
    /\ NoPass
    /\ UNCHANGED <<message_logs, logs_file, pc, cfgMax, twilio, other, hist,
                   nPass>>

----------------------------------------------------------------------------
\* process_outbox

\* mutant of BudgetSpent: the comparison written as >
BudgetSpent_Strict(attempts, m) == attempts > m

\* if attempts >= max_attempts: (the row is not attempted)
BudgetSpent(attempts, m) == attempts >= m

\* mutant of StatusAfterFailure: compares the attempts before the increment
StatusAfterFailure_BeforeIncrement(attempts, m) ==
    IF attempts < m THEN "Retrying" ELSE "Failed"

\* the Status a failed send leaves: "Retrying" while attempts + 1 < max_attempts
StatusAfterFailure(attempts, m) ==
    IF attempts + 1 < m THEN "Retrying" ELSE "Failed"

\* mutant of SkipRow: the attempts are incremented before the budget check
SkipRow_Counted(df, idx, attempts) ==
    SetAt(SetAt(df, idx, "Attempts", attempts + 1), idx, "Status", "Failed")

\* the branch of a row whose budget is spent: Status = "Failed", no send
SkipRow(df, idx, attempts) == SetAt(df, idx, "Status", "Failed")

\* mutant of CountAttempt: writes the attempts read, not attempts + 1
CountAttempt_Same(df, idx, attempts) == SetAt(df, idx, "Attempts", attempts)

\* st.session_state.outbox_df.at[idx, "Attempts"] = attempts + 1
CountAttempt(df, idx, attempts) == SetAt(df, idx, "Attempts", attempts + 1)

\* sent_row: the message_logs row of a delivered outbox row
SentRow(row) ==
    [Recipient |-> row.Recipient, Message |-> row.Message,
     Language |-> row.Language, Type |-> row.Type, Status |-> "Sent",
     uid |-> row.uid]

\* mutant of LogSent: the log row is appended twice
LogSent_Twice(logs, row) == Append(Append(logs, SentRow(row)), SentRow(row))

\* mutant of LogSent: the new row is put before the log
LogSent_NewFirst(logs, row) == <<SentRow(row)>> \o logs

\* pd.concat([message_logs, pd.DataFrame([sent_row])], ignore_index=True)
LogSent(logs, row) == Append(logs, SentRow(row))

\* mutant of RemoveSent: the label is used as a position (a position past the
\* end removes nothing)
RemoveSent_ByPosition(df, idx) ==
    [k \in 1..(IF idx + 1 <= Len(df) THEN Len(df) - 1 ELSE Len(df)) |->
        IF k < idx + 1 THEN df[k] ELSE df[k + 1]]

\* mutant of RemoveSent: the drop's result is not assigned back
RemoveSent_NotAssigned(df, idx) == df

\* the row of a delivered message leaves the table
RemoveSent(df, idx) == DropLabel(df, idx)

\* the arguments safe_send_sms / safe_make_call is called with, for a row
CallOf(row) ==
    [uid |-> row.uid, Type |-> row.Type, Recipient |-> row.Recipient,
     Message |-> row.Message]

\* One iteration of the for loop on (idx, row) of the copy, the transport
\* meeting `case`: the tables after it, the tuple appended to results, and
\* the transport calls it made.
ProcessRow(df, logs, row, m, configured, case) ==
    LET idx == row.idx
        attempts == row.Attempts
        sent == Deliver(row.Type, configured, case)
        ok == sent[1]
        info == sent[2]
        df1 == CountAttempt(df, idx, attempts)
    IN  IF BudgetSpent(attempts, m)
        THEN [df |-> SkipRow(df, idx, attempts), logs |-> logs,
              result |-> [idx |-> idx, ok |-> FALSE, info |-> "max attempts reached"],
              called |-> <<>>]
        ELSE IF ok
        THEN [df |-> RemoveSent(df1, idx), logs |-> LogSent(logs, row),
              result |-> [idx |-> idx, ok |-> TRUE, info |-> info],
              called |-> <<CallOf(row)>>]
        ELSE [df |-> SetAt(df1, idx, "Status", StatusAfterFailure(attempts, m)),
              logs |-> logs,
              result |-> [idx |-> idx, ok |-> FALSE, info |-> info],
              called |-> <<CallOf(row)>>]

\* history: the entries in the queue, and those not Failed, as a pass starts
NotePassStart(h, df) ==
    [u \in Uids |->
        IF \E k \in 1..Len(df) : df[k].uid = u /\ df[k].Status # "Failed"
        THEN [h[u] EXCEPT !.passes = @ + 1, !.seen = @ + 1]
        ELSE IF \E k \in 1..Len(df) : df[k].uid = u
             THEN [h[u] EXCEPT !.seen = @ + 1] ELSE h[u]]

\* history: the transport was called for entry u, with result ok; calls and
\* passes count while the entry is queued and has not been reopened
NoteCall(h, u, ok) ==
    IF ok THEN [h EXCEPT ![u].calls = 0, ![u].passes = 0, ![u].seen = 0,
                         ![u].sent = @ + 1]
    ELSE [h EXCEPT ![u].calls = @ + 1]

\* mutant of DrainEmpty: the early return writes both files from empty tables
DrainEmpty_Rewrites ==
    /\ pc = "idle"
    /\ IsEmpty(outbox_df)
    /\ NoPass
    /\ outbox_file' = <<>>
    /\ logs_file' = <<>>
    /\ report' = [op |-> "drain", count |-> 0]
    /\ pre' = Before(NoArg)
    /\ UNCHANGED <<outbox_df, message_logs, pc, cfgMax, twilio, other,
                   nFault, hist, nEnq,
                   nPass>>

\* if st.session_state.outbox_df.empty: return []
DrainEmpty ==
    /\ pc = "idle"
    /\ IsEmpty(outbox_df)
    /\ NoPass
    /\ report' = [op |-> "drain", count |-> 0]
    /\ pre' = Before(NoArg)
    /\ UNCHANGED <<outbox_df, message_logs, outbox_file, logs_file, pc,
                   cfgMax, twilio, other, nFault, hist, nEnq, nPass>>

\* results = []; the loop starts on outbox_df.copy()
DrainStart(m) ==
    /\ pc = "idle"
    /\ ~IsEmpty(outbox_df)
    /\ nPass < MaxPasses
    /\ max_attempts' = m
    /\ results' = <<>>
    /\ calls' = <<>>
    /\ report' = [op |-> "processing", count |-> 0]
    /\ snap' = outbox_df
    /\ pos' = 1
    /\ pc' = "loop"
    /\ pre' = Before(NoArg)
    /\ hist' = NotePassStart(hist, outbox_df)
    /\ nPass' = nPass + 1
    /\ UNCHANGED <<outbox_df, message_logs, outbox_file, logs_file, cfgMax,
                   twilio, other, nFault, nEnq>>

\* mutant of DrainRow: a send that fails ends the loop
DrainRow_StopsOnFailure ==
    /\ pc = "loop"
    /\ pos <= Len(snap)
    /\ \E case \in TransportCases :
          LET row == snap[pos]
              out == ProcessRow(outbox_df, message_logs, row, max_attempts,
                                twilio, case)
          IN  /\ outbox_df' = out.df
              /\ message_logs' = out.logs
              /\ results' = Append(results, out.result)
              /\ calls' = calls \o out.called
              /\ hist' = IF out.called # <<>> /\ row.uid \in Uids
                         THEN NoteCall(hist, row.uid, out.result.ok) ELSE hist
              /\ pc' = IF pos + 1 > Len(snap) \/ ~out.result.ok
                       THEN "save" ELSE "loop"
    /\ pos' = pos + 1
    /\ UNCHANGED <<outbox_file, logs_file, max_attempts, snap, report,
                   cfgMax, twilio, other, nFault, pre, nEnq, nPass>>

\* one iteration of the loop
DrainRow ==
    /\ pc = "loop"
    /\ pos <= Len(snap)
    /\ \E case \in TransportCases :
          LET row == snap[pos]
              out == ProcessRow(outbox_df, message_logs, row, max_attempts,
                                twilio, case)
          IN  /\ outbox_df' = out.df
              /\ message_logs' = out.logs
              /\ results' = Append(results, out.result)
              /\ calls' = calls \o out.called
              /\ hist' = IF out.called # <<>> /\ row.uid \in Uids
                         THEN NoteCall(hist, row.uid, out.result.ok) ELSE hist
    /\ pos' = pos + 1
    /\ pc' = IF pos + 1 > Len(snap) THEN "save" ELSE "loop"
    /\ UNCHANGED <<outbox_file, logs_file, max_attempts, snap, report,
                   cfgMax, twilio, other, nFault, pre, nEnq, nPass>>

\* len([r for r in results if r[1]])
Successes(res) == Cardinality({ k \in 1..Len(res) : res[k].ok })

\* mutant of DrainSave: the logs file is not saved
DrainSave_OutboxOnly ==
    /\ pc = "save"
    /\ outbox_file' = save_df_to_file(outbox_df)
    /\ logs_file' = logs_file
    /\ pc' = "idle"
    /\ report' = [op |-> "drain", count |-> Successes(results)]
    /\ UNCHANGED <<outbox_df, message_logs, max_attempts, snap, pos, results,
                   calls, cfgMax, twilio, other, nFault, hist, pre, nEnq,
                   nPass>>

\* "Save state" and return results
DrainSave ==
    /\ pc = "save"
    /\ outbox_file' = save_df_to_file(outbox_df)
    /\ logs_file' = save_df_to_file(message_logs)
    /\ pc' = "idle"
    /\ report' = [op |-> "drain", count |-> Successes(results)]
    /\ UNCHANGED <<outbox_df, message_logs, max_attempts, snap, pos, results,
                   calls, cfgMax, twilio, other, nFault, hist, pre, nEnq,
                   nPass>>

\* the exception of a failed save leaves process_outbox; nothing is returned
\* and the page shows the error
SaveRaised ==
    /\ Raised
    /\ pc' = "idle"
    /\ report' = [op |-> "error", count |-> 0]
    /\ UNCHANGED <<outbox_df, message_logs, max_attempts, snap, pos, results,
                   calls, cfgMax, twilio, other, hist, pre, nEnq, nPass>>

\* the save of the outbox file raises; the save of the logs file is not reached
DrainSaveOutboxRaises ==
    /\ pc = "save"
    /\ outbox_file' \in save_df_to_file_raises(outbox_file)
    /\ logs_file' = logs_file
    /\ SaveRaised

\* the outbox file is saved, then the save of the logs file raises
DrainSaveLogsRaises ==
    /\ pc = "save"
    /\ outbox_file' = save_df_to_file(outbox_df)
    /\ logs_file' \in save_df_to_file_raises(logs_file)
    /\ SaveRaised

----------------------------------------------------------------------------
\* Outbox page buttons (shown while outbox_df is not empty)

\* mutant of ResetRows: the Attempts column is not reset
ResetRows_StatusOnly(df, mask) == SetLoc(df, mask, "Status", "Pending")

\* the rows "Retry Failed Only" reopens
ResetRows(df, mask) ==
    SetLoc(SetLoc(df, mask, "Status", "Pending"), mask, "Attempts", 0)

\* history: the entries at the positions of mask get flag f
NoteMask(h, df, mask, f) ==
    [u \in Uids |->
        IF \E k \in mask : df[k].uid = u
        THEN [h[u] EXCEPT ![f] = TRUE, !.calls = 0, !.passes = 0, !.seen = 0]
        ELSE h[u]]

\* "Retry Failed Only"
ResetFailed ==
    /\ pc = "idle"
    /\ ~IsEmpty(outbox_df)
    /\ LET mask == FailedMask(outbox_df)
       IN  IF mask # {}
           THEN /\ outbox_df' = ResetRows(outbox_df, mask)
                /\ outbox_file' = save_df_to_file(ResetRows(outbox_df, mask))
                /\ report' = [op |-> "reset", count |-> Cardinality(mask)]
                /\ hist' = NoteMask(hist, outbox_df, mask, "reset")
           ELSE /\ report' = [op |-> "reset", count |-> 0]
                /\ UNCHANGED <<outbox_df, outbox_file, hist>>
    /\ pre' = Before(NoArg)
    /\ NoPass
    /\ UNCHANGED <<message_logs, logs_file, pc, cfgMax, twilio, other,
                   nFault, nEnq, nPass>>

\* "Clear All Failed"
PurgeFailed ==
    /\ pc = "idle"
    /\ ~IsEmpty(outbox_df)
    /\ LET mask == FailedMask(outbox_df)
       IN  IF mask # {}
           THEN /\ outbox_df' = FilterNot(outbox_df, mask)
                /\ outbox_file' = save_df_to_file(FilterNot(outbox_df, mask))
                /\ report' = [op |-> "purge", count |-> Cardinality(mask)]
                /\ hist' = NoteMask(hist, outbox_df, mask, "purged")
           ELSE /\ report' = [op |-> "purge", count |-> 0]
                /\ UNCHANGED <<outbox_df, outbox_file, hist>>
    /\ pre' = Before(NoArg)
    /\ NoPass
    /\ UNCHANGED <<message_logs, logs_file, pc, cfgMax, twilio, other,
                   nFault, nEnq, nPass>>

\* "Retry Failed Only" when its save raises: the rows are already reopened
ResetFailedRaises ==
    /\ pc = "idle"
    /\ ~IsEmpty(outbox_df)
    /\ LET mask == FailedMask(outbox_df)
       IN  /\ mask # {}
           /\ outbox_df' = ResetRows(outbox_df, mask)
           /\ hist' = NoteMask(hist, outbox_df, mask, "reset")
    /\ outbox_file' \in save_df_to_file_raises(outbox_file)
    /\ Raised
    /\ report' = [op |-> "error", count |-> 0]
    /\ pre' = Before(NoArg)
    /\ NoPass
    /\ UNCHANGED <<message_logs, logs_file, pc, cfgMax, twilio, other, nEnq,
                   nPass>>

\* "Clear All Failed" when its save raises: the rows are already removed
PurgeFailedRaises ==
    /\ pc = "idle"
    /\ ~IsEmpty(outbox_df)
    /\ LET mask == FailedMask(outbox_df)
       IN  /\ mask # {}
           /\ outbox_df' = FilterNot(outbox_df, mask)
           /\ hist' = NoteMask(hist, outbox_df, mask, "purged")
    /\ outbox_file' \in save_df_to_file_raises(outbox_file)
    /\ Raised
    /\ report' = [op |-> "error", count |-> 0]
    /\ pre' = Before(NoArg)
    /\ NoPass
    /\ UNCHANGED <<message_logs, logs_file, pc, cfgMax, twilio, other, nEnq,
                   nPass>>

----------------------------------------------------------------------------
\* Specifications

Enqueue == \E p \in Payloads : add_to_outbox(p)

\* a caller may pass any max_attempts to process_outbox
DrainAny == \E m \in MaxAttemptsChoices : DrainStart(m)

\* every pass is given the same max_attempts
DrainFixed == DrainStart(cfgMax)

Next ==
    \/ Enqueue
    \/ DrainEmpty
    \/ DrainAny
    \/ DrainRow
    \/ DrainSave
    \/ ResetFailed
    \/ PurgeFailed

Spec == Init /\ [][Next]_vars

InitFixed ==
    /\ outbox_df = <<>>
    /\ message_logs = <<>>
    /\ outbox_file = <<>>
    /\ logs_file = <<>>
    /\ pc = "idle"
    /\ max_attempts = DefaultMaxAttempts
    /\ snap = <<>>
    /\ pos = 1
    /\ results = <<>>
    /\ calls = <<>>
    /\ report = [op |-> "start", count |-> 0]
    /\ cfgMax \in MaxAttemptsChoices
    /\ twilio \in BOOLEAN
    /\ hist = [u \in Uids |-> HistZero]
    /\ pre = [outbox |-> <<>>, logs |-> <<>>, ofile |-> <<>>, lfile |-> <<>>,
              arg |-> NoArg]
    /\ nEnq = 0
    /\ nPass = 0
    /\ nFault = 0
    /\ other = NoSession

NextFixed ==
    \/ Enqueue
    \/ DrainEmpty
    \/ DrainFixed
    \/ DrainRow
    \/ DrainSave
    \/ ResetFailed
    \/ PurgeFailed

SpecFixed == InitFixed /\ [][NextFixed]_vars

EnqueueRaises == \E p \in Payloads : add_to_outbox_raises(p)

\* the Outbox page's operations (it calls process_outbox() with the default
\* max_attempts), where every save may raise
NextFault ==
    \/ NextFixed
    \/ EnqueueRaises
    \/ DrainSaveOutboxRaises
    \/ DrainSaveLogsRaises
    \/ ResetFailedRaises
    \/ PurgeFailedRaises

SpecFault == Init /\ [][NextFault]_vars

----------------------------------------------------------------------------
\* The Send buttons of the Multilingual Messages and Outreach Partners pages

\* the immediate attempt: safe_send_sms / safe_make_call if twilio_configured()
\* and TwilioClient, else (False, "Twilio not configured")
ImmediateSend(msg_type, configured, case) ==
    IF configured THEN Deliver(msg_type, configured, case)
    ELSE <<FALSE, "Twilio not configured">>

\* mutant of QueuedAfterSend: the message is queued whatever the attempt gave
QueuedAfterSend_Always(ok) == TRUE

\* if ok: ... else: add_to_outbox(...)
QueuedAfterSend(ok) == ~ok

\* log_row of the Multilingual Messages page (uid 0: never in the outbox)
LogRow(p) ==
    [Recipient |-> p.Recipient, Message |-> p.Message, Language |-> p.Language,
     Type |-> p.Type, Status |-> "Sent", uid |-> 0]

\* what both Send buttons share: the immediate attempt, and add_to_outbox when
\* it failed; logged tells whether the page logs a success. The log is kept
\* within MaxEnq rows.
SendFrom(page, p, logged) ==
    /\ pc = "idle"
    /\ \E case \in TransportCases :
          LET sent == ImmediateSend(p.Type, twilio, case)
              ok == sent[1]
              row == OutboxRow(p.Recipient, p.Message, p.Language, p.Type,
                               nEnq + 1)
              df == ConcatIgnoreIndex(outbox_df, row)
              logs == Append(message_logs, LogRow(p))
          IN  /\ IF QueuedAfterSend(ok)
                 THEN /\ nEnq < MaxEnq
                      /\ outbox_df' = df
                      /\ outbox_file' = save_df_to_file(df)
                      /\ nEnq' = nEnq + 1
                 ELSE UNCHANGED <<outbox_df, outbox_file, nEnq>>
              /\ IF ok /\ logged
                 THEN /\ Len(message_logs) < MaxEnq
                      /\ message_logs' = logs
                      /\ logs_file' = save_df_to_file(logs)
                 ELSE UNCHANGED <<message_logs, logs_file>>
              /\ report' = [op |-> page, count |-> IF ok THEN 1 ELSE 0]
    /\ pre' = Before(p)
    /\ NoPass
    /\ UNCHANGED <<pc, cfgMax, twilio, other, nFault, hist, nPass>>

\* Multilingual Messages: Send
MultilingualSend == \E p \in Payloads : SendFrom("multilingual", p, TRUE)

\* Outreach Partners: Send Message (a success is shown, not logged)
PartnerSendMessage == \E p \in Payloads : SendFrom("partners", p, FALSE)

\* the app as its pages drive it: messages reach the outbox through the Send
\* buttons only, and the Outbox page, whose buttons show while the outbox is
\* not empty, calls process_outbox() with the default max_attempts
NextPages ==
    \/ MultilingualSend
    \/ PartnerSendMessage
    \/ DrainFixed
    \/ DrainRow
    \/ DrainSave
    \/ ResetFailed
    \/ PurgeFailed

SpecPages == Init /\ [][NextPages]_vars

----------------------------------------------------------------------------
\* load_df_from_file and the Settings page's "Reload All Data"

\* pd.read_json infers the type of each column: a column whose strings all
\* read as numbers becomes int64, so a phone number loses its "+" (the int64
\* is written here by its digits)
ReadsAsNumber(v) ==
    v \in {"+254700000000", "+254711111111", "254700000000", "254711111111"}

AsInt64(v) ==
    CASE v = "+254700000000" -> "254700000000"
      [] v = "+254711111111" -> "254711111111"
      [] OTHER -> v

\* the Recipient column of the stored records as read_json returns it
ReadRecipient(file, k) ==
    IF \A j \in 1..Len(file) : ReadsAsNumber(file[j].Recipient)
    THEN AsInt64(file[k].Recipient) ELSE file[k].Recipient

\* load_df_from_file(OUTBOX_FILE, columns): the stored records under the
\* labels 0..n-1; a file that cannot be read gives an empty table
LoadOutbox(file) ==
    [k \in 1..Len(file) |->
        [idx |-> k - 1, Recipient |-> ReadRecipient(file, k),
         Message |-> file[k].Message, Language |-> file[k].Language,
         Type |-> file[k].Type, Attempts |-> file[k].Attempts,
         Status |-> file[k].Status, uid |-> file[k].uid]]

\* load_df_from_file(MESSAGES_FILE, columns)
LoadLogs(file) ==
    [k \in 1..Len(file) |->
        [file[k] EXCEPT !.Recipient = ReadRecipient(file, k)]]

\* history: the entries that a reload puts (back) into the queue start their
\* counts of calls and passes again
NoteLoaded(h, df) ==
    [u \in Uids |->
        IF \E k \in 1..Len(df) : df[k].uid = u
        THEN [h[u] EXCEPT !.calls = 0, !.passes = 0, !.seen = 0] ELSE h[u]]

\* "Reload All Data"
ReloadAllData ==
    /\ pc = "idle"
    /\ outbox_df' = LoadOutbox(outbox_file)
    /\ message_logs' = LoadLogs(logs_file)
    /\ hist' = NoteLoaded(hist, LoadOutbox(outbox_file))
    /\ report' = [op |-> "reload", count |-> 0]
    /\ pre' = Before(NoArg)
    /\ NoPass
    /\ UNCHANGED <<outbox_file, logs_file, pc, cfgMax, twilio, other, nFault,
                   nEnq,
                   nPass>>

\* the Outbox page's operations with saves that may raise, and the reload
NextReload ==
    \/ NextFault
    \/ ReloadAllData

SpecReload == Init /\ [][NextReload]_vars

----------------------------------------------------------------------------
\* A second browser session on the same files. Streamlit gives every session
\* its own st.session_state and runs its script in its own thread; the code
\* takes no lock.

\* what an action of the second session leaves alone
OtherFrame ==
    UNCHANGED <<outbox_df, message_logs, pc, max_attempts, snap, pos, results,
                calls, report, cfgMax, twilio, pre, nEnq, nFault>>

\* the first run of the script: the tables are loaded from the files
OtherSessionStart ==
    /\ ~other.started
    /\ other' = [other EXCEPT !.started = TRUE,
                              !.outbox_df = LoadOutbox(outbox_file),
                              !.message_logs = LoadLogs(logs_file)]
    /\ UNCHANGED <<outbox_file, logs_file, hist, nPass>>
    /\ OtherFrame

\* "Process All Messages" in the second session: process_outbox() starts
OtherDrainStart ==
    /\ other.started
    /\ other.pc = "idle"
    /\ ~IsEmpty(other.outbox_df)
    /\ nPass < MaxPasses
    /\ other' = [other EXCEPT !.pc = "loop", !.snap = other.outbox_df,
                              !.pos = 1, !.results = <<>>]
    /\ nPass' = nPass + 1
    /\ UNCHANGED <<outbox_file, logs_file, hist>>
    /\ OtherFrame

\* one iteration of its loop
OtherDrainRow ==
    /\ other.pc = "loop"
    /\ other.pos <= Len(other.snap)
    /\ \E case \in TransportCases :
          LET row == other.snap[other.pos]
              out == ProcessRow(other.outbox_df, other.message_logs, row,
                                DefaultMaxAttempts, twilio, case)
          IN  /\ other' = [other EXCEPT
                              !.outbox_df = out.df,
                              !.message_logs = out.logs,
                              !.results = Append(other.results, out.result),
                              !.pos = other.pos + 1,
                              !.pc = IF other.pos + 1 > Len(other.snap)
                                     THEN "save" ELSE "loop"]
              /\ hist' = IF out.called # <<>> /\ row.uid \in Uids
                         THEN NoteCall(hist, row.uid, out.result.ok) ELSE hist
    /\ UNCHANGED <<outbox_file, logs_file, nPass>>
    /\ OtherFrame

\* its two saves
OtherDrainSave ==
    /\ other.pc = "save"
    /\ outbox_file' = save_df_to_file(other.outbox_df)
    /\ logs_file' = save_df_to_file(other.message_logs)
    /\ other' = [other EXCEPT !.pc = "idle"]
    /\ UNCHANGED <<hist, nPass>>
    /\ OtherFrame

\* two sessions: the first with every outbox operation, the second with
\* "Process All Messages"
NextSessions ==
    \/ NextFixed
    \/ OtherSessionStart
    \/ OtherDrainStart
    \/ OtherDrainRow
    \/ OtherDrainSave

SpecSessions == Init /\ [][NextSessions]_vars

----------------------------------------------------------------------------
\* Vocabulary of the properties

\* the entries (by uid) that table df holds
Queued(df) == { df[k].uid : k \in 1..Len(df) }

\* the row of df labelled idx, and the row of df of entry u
RowAt(df, idx) == CHOOSE r \in { df[k] : k \in 1..Len(df) } : r.idx = idx

RowOf(df, u) == CHOOSE r \in { df[k] : k \in 1..Len(df) } : r.uid = u

\* the transport calls of the pass made for entry u
CallsFor(u) == { j \in 1..Len(calls) : calls[j].uid = u }

\* the rows of the copy the loop has gone through: snap[k] for k in Processed;
\* results[k] is the outcome of snap[k]
Processed == 1..Len(results)

\* the message_logs rows appended since the operation started
NewLogs == SubSeq(message_logs, Len(pre.logs) + 1, Len(message_logs))

\* a pass over a non-empty outbox has returned and nothing ran since
PassReturned == pc = "idle" /\ report.op = "drain" /\ snap # <<>>

----------------------------------------------------------------------------
\* Properties

(* C1: in a drain pass every entry whose transport call reports success is
   absent from the queue and has exactly one new Delivery Log row, carrying
   its recipient, message, language and channel with status Sent; the log
   has grown, and the queue has shrunk, by the number of success outcomes. *)
C1_SuccessRemovesAndLogs ==
    snap # <<>> =>
        LET succ == { k \in Processed : results[k].ok }
        IN  /\ \A k \in succ :
                /\ results[k].idx = snap[k].idx
                /\ snap[k].idx \notin Labels(outbox_df)
                /\ snap[k].uid \notin Queued(outbox_df)
                /\ Cardinality({ j \in 1..Len(NewLogs) :
                                    NewLogs[j].uid = snap[k].uid }) = 1
                /\ \A j \in 1..Len(NewLogs) :
                      NewLogs[j].uid = snap[k].uid =>
                          /\ NewLogs[j].Recipient = snap[k].Recipient
                          /\ NewLogs[j].Message = snap[k].Message
                          /\ NewLogs[j].Language = snap[k].Language
                          /\ NewLogs[j].Type = snap[k].Type
                          /\ NewLogs[j].Status = "Sent"
            /\ Len(message_logs) >= Len(pre.logs)
            /\ SubSeq(message_logs, 1, Len(pre.logs)) = pre.logs
            /\ Len(message_logs) - Len(pre.logs) = Cardinality(succ)
            /\ Len(snap) - Len(outbox_df) = Cardinality(succ)

\* a pass has returned in which one entry was delivered and another was not
C1_Witness ==
    /\ PassReturned
    /\ \E k \in Processed : results[k].ok
    /\ \E k \in Processed : ~results[k].ok

(* C2: an entry with attempts = a < max_attempts at pass start gets exactly
   one transport call (its channel, recipient and message); if the call
   fails the entry stays, with attempts a + 1 and status Retrying when
   a + 1 < max_attempts and Failed otherwise, and the outcome is
   (False, the transport's info); if it succeeds the row is gone. *)
C2_PerEntryTransition ==
    \A k \in Processed :
        LET r0 == snap[k]
            a == r0.Attempts
        IN  a < max_attempts =>
              /\ Cardinality(CallsFor(r0.uid)) = 1
              /\ \A j \in CallsFor(r0.uid) :
                    /\ calls[j].Type = r0.Type
                    /\ calls[j].Recipient = r0.Recipient
                    /\ calls[j].Message = r0.Message
              /\ results[k].idx = r0.idx
              /\ IF results[k].ok
                 THEN r0.idx \notin Labels(outbox_df)
                 ELSE /\ r0.idx \in Labels(outbox_df)
                      /\ RowAt(outbox_df, r0.idx) =
                            [r0 EXCEPT !.Attempts = a + 1,
                                       !.Status = IF a + 1 < max_attempts
                                                  THEN "Retrying" ELSE "Failed"]
                      /\ results[k].info \in
                            {"Twilio not configured", "Twilio error"}

\* a pass has returned in which an entry with earlier attempts spent its last
\* one on a failed call, and another one failed with budget left
C2_Witness ==
    /\ PassReturned
    /\ \E k \in Processed :
          /\ ~results[k].ok
          /\ snap[k].Attempts >= 1
          /\ snap[k].Attempts + 1 = max_attempts
    /\ \E k \in Processed :
          /\ ~results[k].ok
          /\ snap[k].Attempts + 1 < max_attempts

\* what a pass does to an entry whose attempts are at or above max_attempts
C3_Pass ==
    \A k \in Processed :
        snap[k].Attempts >= max_attempts =>
            /\ CallsFor(snap[k].uid) = {}
            /\ results[k] = [idx |-> snap[k].idx, ok |-> FALSE,
                             info |-> "max attempts reached"]
            /\ snap[k].idx \in Labels(outbox_df)
            /\ RowAt(outbox_df, snap[k].idx) = [snap[k] EXCEPT !.Status = "Failed"]

\* outside "Retry Failed Only", an entry that stays queued keeps its attempts
\* at or above any value they have reached
C3_Stays ==
    \A u \in Queued(outbox_df) \cap Queued(outbox_df') :
        report'.op # "reset" =>
            RowOf(outbox_df', u).Attempts >= RowOf(outbox_df, u).Attempts

(* C3: once an entry's attempts are >= max_attempts they stay so until
   resetFailed, and every drain with that max_attempts makes no transport
   call for the entry, leaves its attempts unchanged, leaves it in the queue
   with status Failed and reports (False, "max attempts reached") for it. *)
C3_TerminalBudget == [](C3_Pass) /\ [][C3_Stays]_vars

\* a pass has returned that skipped an entry which an earlier pass with the
\* same max_attempts had left Failed
C3_Witness ==
    /\ PassReturned
    /\ \E k \in Processed :
          /\ results[k].info = "max attempts reached"
          /\ snap[k].Status = "Failed"
          /\ snap[k].Attempts = max_attempts

(* C4: an entry whose status is Failed at the start of a pass is not handed
   to the transport by that pass, whatever max_attempts the pass is given
   (resetFailed makes it Pending, so a Failed row has not been reset). *)
C4_FailedNeverAttempted ==
    \A k \in Processed :
        snap[k].Status = "Failed" => CallsFor(snap[k].uid) = {}

(* C5 as stated: between operations, the attempts of a queued entry that was
   never reset equal the number of passes at whose start it was in the queue
   with status other than Failed. *)
C5_AttemptsEqualNonFailedPasses ==
    pc = "idle" =>
        \A k \in 1..Len(outbox_df) :
            LET r == outbox_df[k]
            IN  ~hist[r.uid].reset => r.Attempts = hist[r.uid].passes

(* C5 as amended: the attempts of a queued entry that was never reset equal
   the number of passes in which the transport was called for it. *)
C5_AttemptsEqualCalls ==
    \A k \in 1..Len(outbox_df) :
        LET r == outbox_df[k]
        IN  ~hist[r.uid].reset => r.Attempts = hist[r.uid].calls

\* an entry attempted in two passes and skipped, while not Failed, by a third
C5_Witness ==
    /\ pc = "idle"
    /\ \E k \in 1..Len(outbox_df) :
          LET r == outbox_df[k]
          IN  /\ ~hist[r.uid].reset
              /\ r.Attempts = 2
              /\ hist[r.uid].passes = 3

\* entry u is in the queue before the step and not after it
LeavesInStep(u) == u \in Queued(outbox_df) /\ u \notin Queued(outbox_df')

\* the step is a loop iteration that calls the transport for entry u
CalledInStep(u) ==
    /\ Len(calls') = Len(calls) + 1
    /\ calls'[Len(calls')].uid = u

\* ... and the call succeeds
DeliveredInStep(u) ==
    /\ CalledInStep(u)
    /\ Len(results') = Len(results) + 1
    /\ results'[Len(results')].ok

\* the step is "Clear All Failed" and entry u is Failed
PurgedInStep(u) ==
    /\ pc = "idle"
    /\ report'.op = "purge"
    /\ u \in Queued(outbox_df)
    /\ RowOf(outbox_df, u).Status = "Failed"

\* the step is "Retry Failed Only" and entry u is Failed
ResetInStep(u) ==
    /\ pc = "idle"
    /\ report'.op = "reset"
    /\ u \in Queued(outbox_df)
    /\ RowOf(outbox_df, u).Status = "Failed"

(* C6 as stated: an entry leaves the queue in a step if and only if the step
   is a drain step in which the transport call for it succeeded. *)
C6_LeavesIffDelivered ==
    [][\A u \in Uids : LeavesInStep(u) <=> DeliveredInStep(u)]_vars

(* C6 as amended: an entry leaves the queue in a step if and only if the step
   is a drain step in which the transport call for it succeeded, or the step
   is purgeFailed and the entry's status is Failed. *)
C6_LeavesIffDeliveredOrPurged ==
    [][\A u \in Uids :
          LeavesInStep(u) <=> (DeliveredInStep(u) \/ PurgedInStep(u))]_vars

\* "Clear All Failed" has just removed a Failed entry, another entry having
\* left by delivery
C6_Witness ==
    /\ \E u \in Uids : hist[u].purged
    /\ \E u \in Uids : hist[u].sent = 1
    /\ report.op = "purge"

\* the attempts of entry u before and after a step
AttemptsOf(df, u) == RowOf(df, u).Attempts

(* C7 as stated: the attempts of an entry that stays in the queue never
   decrease; they increase by exactly 1 in a drain step that calls the
   transport for it and by 0 in every other step. *)
C7_AttemptsStep ==
    [][\A u \in Queued(outbox_df) \cap Queued(outbox_df') :
          AttemptsOf(outbox_df', u) =
              IF CalledInStep(u) THEN AttemptsOf(outbox_df, u) + 1
              ELSE AttemptsOf(outbox_df, u)]_vars

(* C7 as amended: the attempts of an entry that stays in the queue increase
   by exactly 1 in a drain step that calls the transport for it, become 0 in
   a resetFailed step when the entry is Failed, and are unchanged in every
   other step; so they never decrease except by resetFailed. *)
C7_AttemptsStepOrReset ==
    [][\A u \in Queued(outbox_df) \cap Queued(outbox_df') :
          AttemptsOf(outbox_df', u) =
              IF CalledInStep(u) THEN AttemptsOf(outbox_df, u) + 1
              ELSE IF ResetInStep(u) THEN 0
              ELSE AttemptsOf(outbox_df, u)]_vars

\* an entry was reset after failing and has failed again since
C7_Witness ==
    \E k \in 1..Len(outbox_df) :
        /\ hist[outbox_df[k].uid].reset
        /\ outbox_df[k].Attempts >= 1

(* C8: with every drain given the same max_attempts, a queued entry whose
   status is Retrying has had at least one failed transport call and has
   1 <= attempts < max_attempts. *)
C8_RetryingBounds ==
    \A k \in 1..Len(outbox_df) :
        LET r == outbox_df[k]
        IN  r.Status = "Retrying" =>
              /\ hist[r.uid].calls >= 1
              /\ 1 <= r.Attempts
              /\ r.Attempts < cfgMax

\* a Retrying entry that has failed twice, between operations
C8_Witness ==
    /\ pc = "idle"
    /\ \E k \in 1..Len(outbox_df) :
          /\ outbox_df[k].Status = "Retrying"
          /\ outbox_df[k].Attempts = 2
          /\ hist[outbox_df[k].uid].calls = 2

\* the status changes a drain step may make to the row it processes
DrainMoves ==
    { <<"Pending", "Retrying">>, <<"Pending", "Failed">>,
      <<"Retrying", "Retrying">>, <<"Retrying", "Failed">>,
      <<"Failed", "Failed">> }

(* C9: an entry starts as Pending; a drain step moves the entry it processes
   only Pending->Retrying, Pending->Failed, Retrying->Retrying,
   Retrying->Failed or Failed->Failed (or removes it); an entry leaves
   Failed for another status, or returns to Pending, only by resetFailed. *)
C9_AllowedTransitions ==
    [][/\ \A u \in Queued(outbox_df') \ Queued(outbox_df) :
             RowOf(outbox_df', u).Status = "Pending"
       /\ \A u \in Queued(outbox_df) \cap Queued(outbox_df') :
             LET s == RowOf(outbox_df, u).Status
                 t == RowOf(outbox_df', u).Status
             IN  /\ (pc = "loop" /\ snap[pos].uid = u) => <<s, t>> \in DrainMoves
                 /\ (s = "Failed" /\ t # "Failed") =>
                        (ResetInStep(u) /\ t = "Pending")
                 /\ (s # "Pending" /\ t = "Pending") => ResetInStep(u)
                 /\ s # t => (pc = "loop" \/ ResetInStep(u))]_vars

(* C10: resetFailed sets status Pending and attempts 0 on exactly the Failed
   entries and reports their number; every other entry, the order, the
   labels and the Delivery Log are unchanged (nothing changes when no entry
   is Failed); and the pass that next finds a reset entry calls the
   transport for it. *)
C10_ResetFrame ==
    /\ (pc = "idle" /\ report.op = "reset") =>
          /\ Len(outbox_df) = Len(pre.outbox)
          /\ \A k \in 1..Len(pre.outbox) :
                outbox_df[k] =
                    IF pre.outbox[k].Status = "Failed"
                    THEN [pre.outbox[k] EXCEPT !.Status = "Pending", !.Attempts = 0]
                    ELSE pre.outbox[k]
          /\ report.count =
                Cardinality({ k \in 1..Len(pre.outbox) :
                                 pre.outbox[k].Status = "Failed" })
          /\ message_logs = pre.logs
    /\ \A k \in Processed :
          (/\ hist[snap[k].uid].reset
           /\ snap[k].Status = "Pending"
           /\ snap[k].Attempts = 0) => CallsFor(snap[k].uid) # {}

\* "Retry Failed Only" has just reopened a Failed entry that had attempts and
\* left a Retrying entry as it was
C10_Witness ==
    /\ pc = "idle"
    /\ report.op = "reset"
    /\ report.count >= 1
    /\ \E k \in 1..Len(pre.outbox) :
          pre.outbox[k].Status = "Failed" /\ pre.outbox[k].Attempts >= 1
    /\ \E k \in 1..Len(outbox_df) : outbox_df[k].Status = "Retrying"

----------------------------------------------------------------------------
\* the rows of df that are not Failed, in their order
NotFailedRows(df) == SelectSeq(df, LAMBDA r : r.Status # "Failed")

\* the number of Failed rows of df
FailedCount(df) == Cardinality({ k \in 1..Len(df) : df[k].Status = "Failed" })

(* C11: "Clear All Failed" removes exactly the Failed entries and reports how
   many they were; the Pending and Retrying entries stay, with their fields
   and their relative order, and the Delivery Log is left as it was. *)
C11_PurgeFrame ==
    (pc = "idle" /\ report.op = "purge") =>
        /\ outbox_df = NotFailedRows(pre.outbox)
        /\ report.count = FailedCount(pre.outbox)
        /\ message_logs = pre.logs
        /\ logs_file = pre.lfile

\* a purge that removed a Failed entry and left a Retrying one
C11_Witness ==
    /\ pc = "idle"
    /\ report.op = "purge"
    /\ report.count >= 1
    /\ \E k \in 1..Len(outbox_df) : outbox_df[k].Status = "Retrying"
    /\ Len(pre.outbox) = Len(outbox_df) + 1

----------------------------------------------------------------------------
\* the columns of an outbox row (uid stands for its Time)
Columns ==
    {"Recipient", "Message", "Language", "Type", "Attempts", "Status", "uid"}

\* rows a and b hold the same value in every column
SameFields(a, b) == \A f \in Columns : a[f] = b[f]

\* the stored records are the rows of df, column by column, in order
StoredIs(file, df) ==
    /\ Len(file) = Len(df)
    /\ \A k \in 1..Len(df) : SameFields(file[k], df[k])

(* C12: add_to_outbox appends exactly one entry at the end of the queue, with
   attempts 0, status Pending and the recipient, message, language and channel
   it was given; the entries already queued keep their fields and positions;
   the Delivery Log is unchanged; and on return the outbox file holds the
   in-memory queue. *)
C12_EnqueueFrame ==
    (pc = "idle" /\ report.op = "enqueue") =>
        LET n == Len(pre.outbox) IN
        /\ Len(outbox_df) = n + 1
        /\ outbox_df[n + 1].Attempts = 0
        /\ outbox_df[n + 1].Status = "Pending"
        /\ \A f \in DOMAIN pre.arg : outbox_df[n + 1][f] = pre.arg[f]
        /\ outbox_df[n + 1].uid \notin Queued(pre.outbox)
        /\ \A k \in 1..n : SameFields(outbox_df[k], pre.outbox[k])
        /\ message_logs = pre.logs
        /\ logs_file = pre.lfile
        /\ StoredIs(outbox_file, outbox_df)

\* a voice message enqueued behind an entry that failed twice and is Failed
C12_Witness ==
    /\ pc = "idle"
    /\ report.op = "enqueue"
    /\ Len(outbox_df) = 2
    /\ outbox_df[1].Status = "Failed"
    /\ outbox_df[1].Attempts = 2
    /\ outbox_df[2].Type = "voice"

----------------------------------------------------------------------------
(* C13: process_outbox on an empty queue returns an empty list of outcomes,
   calls no transport, and leaves the in-memory queue, the in-memory log and
   both files as they were; so however often it is repeated, the tables and
   files are those of before the first call. *)
C13_EmptyDrain ==
    (pc = "idle" /\ report.op = "drain" /\ pre.outbox = <<>>) =>
        /\ results = <<>>
        /\ report.count = 0
        /\ calls = <<>>
        /\ outbox_df = <<>>
        /\ message_logs = pre.logs
        /\ outbox_file = pre.ofile
        /\ logs_file = pre.lfile

\* an empty pass over an emptied queue, with deliveries in the log and file
C13_Witness ==
    /\ pc = "idle"
    /\ report.op = "drain"
    /\ pre.outbox = <<>>
    /\ Len(message_logs) = 2
    /\ Len(logs_file) = 2

----------------------------------------------------------------------------
\* the positions of the Delivery Log that hold message u
LoggedAt(logs, u) == { j \in 1..Len(logs) : logs[j].uid = u }

(* C14: with one max_attempts M for every pass and no "Retry Failed Only" on
   the entry, between passes an entry still queued after k passes has had the
   transport called k times (min(k, M) once it is Failed), every call failing,
   and is not in the Delivery Log: while k < M its attempts are k and it is
   Pending (k = 0) or Retrying; from k = M on it is Failed with attempts M and
   exactly M calls. An entry that is gone without a purge is in the log. So
   after M passes every entry is logged, purged or Failed. *)
C14_BoundedResolution ==
    pc = "idle" =>
        \A u \in 1..nEnq :
            ~hist[u].reset =>
                IF u \in Queued(outbox_df)
                THEN LET r == RowOf(outbox_df, u)
                         k == hist[u].seen
                     IN  /\ LoggedAt(message_logs, u) = {}
                         /\ hist[u].calls = r.Attempts
                         /\ k < cfgMax =>
                                /\ r.Attempts = k
                                /\ r.Status = IF k = 0 THEN "Pending"
                                              ELSE "Retrying"
                         /\ k >= cfgMax =>
                                /\ r.Attempts = cfgMax
                                /\ r.Status = "Failed"
                ELSE hist[u].purged \/ Cardinality(LoggedAt(message_logs, u)) = 1

\* M = 3: one entry Failed after three failing passes, another Retrying
\* after one
C14_Witness ==
    /\ pc = "idle"
    /\ cfgMax = 3
    /\ \E r \in { outbox_df[k] : k \in 1..Len(outbox_df) } :
          /\ r.Status = "Failed"
          /\ r.Attempts = 3
          /\ hist[r.uid].calls = 3
          /\ hist[r.uid].seen = 3
          /\ ~hist[r.uid].reset
    /\ \E r \in { outbox_df[k] : k \in 1..Len(outbox_df) } :
          /\ r.Status = "Retrying"
          /\ hist[r.uid].seen = 1

----------------------------------------------------------------------------
\* the positions of the queue that hold message u
QueuedAt(df, u) == { k \in 1..Len(df) : df[k].uid = u }

\* how many of the three places hold message u: the queue, the Delivery Log,
\* the purged messages
PlacesOf(u) ==
    (IF QueuedAt(outbox_df, u) # {} THEN 1 ELSE 0)
    + (IF LoggedAt(message_logs, u) # {} THEN 1 ELSE 0)
    + (IF hist[u].purged THEN 1 ELSE 0)

(* C15: every message ever enqueued is in exactly one place: in the queue
   (once), in the Delivery Log (exactly one row) or purged; it is never both
   queued and logged and never logged twice, also when it failed in earlier
   passes before it was delivered. *)
C15_Conservation ==
    /\ \A u \in 1..nEnq :
          /\ PlacesOf(u) = 1
          /\ Cardinality(QueuedAt(outbox_df, u)) <= 1
          /\ Cardinality(LoggedAt(message_logs, u)) <= 1
          /\ hist[u].sent = Cardinality(LoggedAt(message_logs, u))
    /\ \A u \in Uids \ (1..nEnq) : PlacesOf(u) = 0

\* a pass delivered an entry that had failed in two earlier passes
C15_Witness ==
    /\ PassReturned
    /\ \E k \in 1..Len(snap) :
          /\ results[k].ok
          /\ snap[k].Attempts = 2
          /\ Cardinality(LoggedAt(message_logs, snap[k].uid)) = 1
          /\ snap[k].uid \notin Queued(outbox_df)

----------------------------------------------------------------------------
\* the loop of the pass is over
PassDone == snap # <<>> /\ pc # "loop"

\* what the pass made of the entry at position k of its copy, and what the
\* entry's own attempts a, max_attempts m and transport result ok prescribe
OwnOutcome(k, a, m, ok) ==
    LET e == snap[k]
        u == e.uid
    IN  IF a >= m
        THEN /\ ~results[k].ok
             /\ CallsFor(u) = {}
             /\ u \in Queued(outbox_df)
             /\ RowOf(outbox_df, u) = [e EXCEPT !.Status = "Failed"]
             /\ LoggedAt(NewLogs, u) = {}
        ELSE IF ok
        THEN /\ Cardinality(CallsFor(u)) = 1
             /\ u \notin Queued(outbox_df)
             /\ Cardinality(LoggedAt(NewLogs, u)) = 1
        ELSE /\ Cardinality(CallsFor(u)) = 1
             /\ u \in Queued(outbox_df)
             /\ RowOf(outbox_df, u) =
                    [e EXCEPT !.Attempts = a + 1,
                              !.Status = IF a + 1 < m THEN "Retrying"
                                         ELSE "Failed"]
             /\ LoggedAt(NewLogs, u) = {}

(* C16: a failing send does not end the pass: when the loop is over there is
   an outcome for every entry the pass started with, and what became of each
   entry (status, attempts, outcome, log row) is fixed by its own attempts,
   max_attempts and the result of its own send, whatever happened to the
   entries before and after it. *)
C16_FailureIsolation ==
    PassDone =>
        /\ Len(results) = Len(snap)
        /\ \A k \in 1..Len(snap) :
              OwnOutcome(k, snap[k].Attempts, max_attempts, results[k].ok)

\* Scenario C: A fails and B is delivered in the same pass; the queue holds
\* only A, Retrying with attempts 1, and the log has gained B
C16_Witness ==
    /\ PassReturned
    /\ Len(snap) = 2
    /\ snap[1].Attempts = 0
    /\ snap[2].Attempts = 0
    /\ ~results[1].ok
    /\ results[2].ok
    /\ Len(outbox_df) = 1
    /\ outbox_df[1].uid = snap[1].uid
    /\ outbox_df[1].Status = "Retrying"
    /\ outbox_df[1].Attempts = 1
    /\ Len(NewLogs) = 1
    /\ NewLogs[1].uid = snap[2].uid

----------------------------------------------------------------------------
(* C17: when one of the two saves at the end of a pass fails, nothing of the
   pass is committed: the outbox file and the logs file both hold what they
   held before the pass, and no delivery is reported. *)
C17_FailedSaveCommitsNothing ==
    (pc = "idle" /\ report.op = "error" /\ snap # <<>>) =>
        /\ outbox_file = pre.ofile
        /\ logs_file = pre.lfile
        /\ report.count = 0

----------------------------------------------------------------------------
\* sequence a is the beginning of sequence b
IsPrefix(a, b) == Len(a) <= Len(b) /\ SubSeq(b, 1, Len(a)) = a

\* what a step may do to the Delivery Log and to its file
C18_Step ==
    /\ IsPrefix(message_logs, message_logs')
    /\ IsPrefix(logs_file, logs_file')
    /\ message_logs' # message_logs =>
          /\ pc = "loop"
          /\ Len(results') = Len(results) + 1
          /\ results'[Len(results')].ok
          /\ Len(message_logs') = Len(message_logs) + 1
          /\ message_logs'[Len(message_logs')].uid = snap[pos].uid

(* C18: the Delivery Log is append-only across enqueue, drain, reset and
   purge: the log before a step is the beginning of the log after it, no row
   is removed or changed, and only the loop iteration of a pass that has just
   delivered an entry makes it longer, by that entry's row. *)
C18_LogAppendOnly == [][C18_Step]_vars

\* a pass that appended a row to a log that already held one
C18_Witness ==
    /\ PassReturned
    /\ Len(pre.logs) = 1
    /\ Len(message_logs) = 2
    /\ report.count = 1
    /\ logs_file # <<>>

----------------------------------------------------------------------------
\* the position in the pass's copy of message u
PosOf(u) == CHOOSE k \in 1..Len(snap) : snap[k].uid = u

\* the messages of sequence s appear in the order of the pass's copy
InCopyOrder(s) ==
    \A i, j \in 1..Len(s) : i < j => PosOf(s[i].uid) < PosOf(s[j].uid)

\* the positions processed so far whose send was made / succeeded
Attempted == { k \in Processed : snap[k].Attempts < max_attempts }
Delivered == { k \in Processed : results[k].ok }

(* C19: a pass goes through the queue in order: the k-th outcome is that of
   the k-th entry the pass started with, so one outcome per entry and no
   entry twice; the transport calls and the new log rows follow that order;
   dropping a delivered entry inside the pass makes no later entry be
   skipped, processed twice or updated in place of another; and the entries
   that stay keep their relative order. *)
C19_QueueOrder ==
    snap # <<>> =>
        /\ \A j, k \in 1..Len(snap) :
              j # k => snap[j].idx # snap[k].idx /\ snap[j].uid # snap[k].uid
        /\ Len(results) = pos - 1
        /\ PassDone => Len(results) = Len(snap)
        /\ \A k \in Processed : results[k].idx = snap[k].idx
        /\ { calls[j].uid : j \in 1..Len(calls) }
              = { snap[k].uid : k \in Attempted }
        /\ Len(calls) = Cardinality(Attempted)
        /\ InCopyOrder(calls)
        /\ { NewLogs[j].uid : j \in 1..Len(NewLogs) }
              = { snap[k].uid : k \in Delivered }
        /\ Len(NewLogs) = Cardinality(Delivered)
        /\ InCopyOrder(NewLogs)
        /\ Queued(outbox_df)
              = { snap[k].uid : k \in (1..Len(snap)) \ Delivered }
        /\ Len(outbox_df) = Len(snap) - Cardinality(Delivered)
        /\ InCopyOrder(outbox_df)
        /\ \A k \in (1..Len(snap)) \ Delivered :
              LET r == RowOf(outbox_df, snap[k].uid)
              IN  /\ r.idx = snap[k].idx
                  /\ \A f \in {"Recipient", "Message", "Language", "Type"} :
                        r[f] = snap[k][f]
                  /\ k \notin Processed => r = snap[k]
                  /\ k \in Processed =>
                        r.Attempts = IF k \in Attempted
                                     THEN snap[k].Attempts + 1
                                     ELSE snap[k].Attempts

\* the first entry was delivered and dropped inside the pass, and the second,
\* whose label was then no longer its position, failed and was updated
C19_Witness ==
    /\ PassReturned
    /\ Len(snap) = 2
    /\ results[1].ok
    /\ ~results[2].ok
    /\ Len(calls) = 2
    /\ Len(outbox_df) = 1
    /\ outbox_df[1].idx = 1
    /\ outbox_df[1].uid = snap[2].uid
    /\ outbox_df[1].Attempts = snap[2].Attempts + 1

----------------------------------------------------------------------------
\* both files hold the in-memory tables
InSync == StoredIs(outbox_file, outbox_df) /\ logs_file = message_logs

\* neither file has changed since the operation started
FilesAsBefore == outbox_file = pre.ofile /\ logs_file = pre.lfile

\* an enqueue, non-empty drain, reset or purge has returned without raising
Completed ==
    /\ pc = "idle"
    /\ \/ report.op \in {"enqueue", "reset", "purge"}
       \/ PassReturned

(* C20, as claimed: after every enqueue, non-empty drain, reset or purge that
   completes without a storage failure the outbox file holds the in-memory
   queue and the logs file the in-memory log; inside a pass neither file
   changes before every entry has been processed. *)
C20_InSyncAfterOperation ==
    /\ Completed => InSync
    /\ pc # "idle" => FilesAsBefore

(* C20, amended: a non-empty drain that completes without a storage failure
   leaves both files equal to the in-memory tables. An enqueue, and a reset or
   purge that found a Failed entry, write the outbox file only: they leave it
   equal to the in-memory queue and the logs file as it was. A reset or purge
   that found no Failed entry writes nothing. So as long as no save has
   failed both files equal the in-memory tables after every operation, and a
   logs file left stale by a failed save stays stale until a later non-empty
   drain completes. Inside a pass neither file changes before every entry has
   been processed. *)
C20_SyncPerOperation ==
    /\ PassReturned => InSync
    /\ (pc = "idle" /\ report.op = "enqueue") =>
          StoredIs(outbox_file, outbox_df) /\ logs_file = pre.lfile
    /\ (pc = "idle" /\ report.op \in {"reset", "purge"}) =>
          IF report.count > 0
          THEN StoredIs(outbox_file, outbox_df) /\ logs_file = pre.lfile
          ELSE FilesAsBefore
    /\ (Completed /\ nFault = 0) => InSync
    /\ pc # "idle" => FilesAsBefore

\* an enqueue that returned after the logs save of a pass had failed: the
\* outbox file holds the queue, the logs file lacks a delivery
C20_Witness ==
    /\ pc = "idle"
    /\ report.op = "enqueue"
    /\ nFault = 1
    /\ StoredIs(outbox_file, outbox_df)
    /\ Len(message_logs) = 1
    /\ logs_file = <<>>

----------------------------------------------------------------------------
(* C23: when every pass is given the same max_attempts M, every queued entry
   has 0 <= attempts <= M, is Pending exactly when its attempts are 0 and is
   Failed exactly when its attempts are M, in every state that enqueue, drain,
   "Retry Failed Only" and "Clear All Failed" can reach from an empty queue. *)
C23_StatusMatchesAttempts ==
    \A k \in 1..Len(outbox_df) :
        LET r == outbox_df[k]
        IN  /\ r.Attempts \in 0..cfgMax
            /\ r.Status = "Pending" <=> r.Attempts = 0
            /\ r.Status = "Failed" <=> r.Attempts = cfgMax
            /\ r.Status \in {"Pending", "Retrying", "Failed"}

\* M = 3: an entry Failed with attempts 3 beside an entry that is Retrying
C23_Witness ==
    /\ cfgMax = 3
    /\ \E r \in { outbox_df[k] : k \in 1..Len(outbox_df) } :
          /\ r.Status = "Failed"
          /\ r.Attempts = 3
    /\ \E r \in { outbox_df[k] : k \in 1..Len(outbox_df) } :
          /\ r.Status = "Retrying"
          /\ r.Attempts \in {1, 2}

----------------------------------------------------------------------------
\* a Send button's handler has returned
SendReturned == pc = "idle" /\ report.op \in {"multilingual", "partners"}

\* the queue is the one the handler found plus the handler's message at the
\* end, Pending with attempts 0
QueuedByHandler ==
    LET n == Len(pre.outbox) IN
    /\ Len(outbox_df) = n + 1
    /\ outbox_df[n + 1].Attempts = 0
    /\ outbox_df[n + 1].Status = "Pending"
    /\ \A f \in DOMAIN pre.arg : outbox_df[n + 1][f] = pre.arg[f]
    /\ \A k \in 1..n : SameFields(outbox_df[k], pre.outbox[k])

(* C21: a transport that is not configured gives an ordinary failure result,
   not an exception: in a pass its entries get the attempts increment and the
   Retrying / Failed status of any failed send and the pass goes on; and a
   Send button queues its message, Pending with attempts 0, exactly when the
   immediate attempt reported failure, for want of configuration or from a
   transport error, and queues nothing when it reported success. *)
C21_UniformDegradation ==
    /\ \A k \in Processed :
          LET a == snap[k].Attempts
              u == snap[k].uid
          IN  /\ (~twilio /\ a < max_attempts) =>
                    /\ ~results[k].ok
                    /\ results[k].info = "Twilio not configured"
              /\ (~results[k].ok /\ a < max_attempts) =>
                    /\ u \in Queued(outbox_df)
                    /\ RowOf(outbox_df, u).Attempts = a + 1
                    /\ RowOf(outbox_df, u).Status =
                          IF a + 1 < max_attempts THEN "Retrying" ELSE "Failed"
    /\ PassDone => Len(results) = Len(snap)
    /\ SendReturned =>
          /\ ~twilio => report.count = 0
          /\ IF report.count = 0 THEN QueuedByHandler
             ELSE outbox_df = pre.outbox

\* without configuration: a Send queued its message behind an entry that an
\* earlier Send had queued and a pass had left Retrying
C21_Witness ==
    /\ ~twilio
    /\ SendReturned
    /\ report.count = 0
    /\ Len(outbox_df) = 2
    /\ outbox_df[1].Status = "Retrying"
    /\ outbox_df[1].Attempts = 1
    /\ outbox_df[2].Status = "Pending"

----------------------------------------------------------------------------
(* C25: a Send button whose immediate attempt succeeded, on either page and
   for sms and voice, has appended exactly one Sent row with the message's
   recipient, text, language and channel to the Delivery Log. *)
C25_ImmediateSendLogged ==
    (SendReturned /\ report.count = 1) =>
        /\ Len(message_logs) = Len(pre.logs) + 1
        /\ SubSeq(message_logs, 1, Len(pre.logs)) = pre.logs
        /\ message_logs[Len(message_logs)].Status = "Sent"
        /\ \A f \in DOMAIN pre.arg :
              message_logs[Len(message_logs)][f] = pre.arg[f]

----------------------------------------------------------------------------
(* C24: over enqueue, drain, "Retry Failed Only", "Clear All Failed" and
   "Reload All Data", with saves that may fail, the transport reports success
   at most once for an enqueued message and the Delivery Log holds at most one
   row for it. *)
C24_AtMostOnce ==
    \A u \in Uids :
        /\ hist[u].sent <= 1
        /\ Cardinality(LoggedAt(message_logs, u)) <= 1

----------------------------------------------------------------------------
\* the messages in the stored outbox records
Stored(file) == { file[k].uid : k \in 1..Len(file) }

(* C22: across the sessions that share the outbox file a pass never overlaps
   another pass (nor, every other operation being one step here, an enqueue,
   reset or purge); so no entry is delivered by two passes, and between
   operations no enqueued message that was neither delivered nor purged is
   missing from the outbox file. *)
C22_MutualExclusion ==
    /\ ~(pc # "idle" /\ other.pc # "idle")
    /\ \A u \in Uids : hist[u].sent <= 1
    /\ (pc = "idle" /\ other.pc = "idle") =>
          \A u \in 1..nEnq :
              u \in Stored(outbox_file) \/ hist[u].sent >= 1 \/ hist[u].purged


====
